---- MODULE Spec2Model ----
(***************************************************************************)
(* eth-validator-api: the block-reward pipeline of handlers/blockreward.go *)
(* (GetBlockReward and the functions it calls) and the router that main.go *)
(* starts, as a state machine.                                             *)
(*                                                                         *)
(* Conventions of the model                                                *)
(*  - A Go string is a sequence of one-character strings, so that          *)
(*    strconv.Atoi, strconv.ParseUint, hex.DecodeString, strings.ToLower   *)
(*    and strings.Contains are computed character by character.  Byte      *)
(*    strings (decoded extra-data) are sequences of ASCII codes.           *)
(*  - A Gwei amount is a pair of base-EthToGwei limbs [eth, gwei] denoting *)
(*    eth * EthToGwei + gwei: 32 * EthToGwei does not fit the 32-bit       *)
(*    integers of the model checker.                                       *)
(*  - float64 results are exact reals.  The base reward                    *)
(*    (factor * balance) / sqrt(stake) is kept as the record               *)
(*    [factor, balance, stake]; the total reward base + wei as             *)
(*    [base, wei]; rounding is not modelled.                               *)
(*  - A panic of the handler is the outcome "panic"; under gin.Default()   *)
(*    the Recovery middleware answers it with a bare 500 (no JSON body).   *)
(*  - main.go registers no route for GetBlockReward, so the handler is     *)
(*    also run on a request of its own (CallGetBlockReward).  The second   *)
(*    half of main.go (lines 19-119) is an earlier copy of the handlers    *)
(*    package and is not modelled.                                         *)
(***************************************************************************)
EXTENDS Integers, Sequences, FiniteSets, TLC

\* ------------------------------------------------------------------ bounds

\* Longest transaction list of an execution block drawn from the upstream.
MaxTxs == 3

\* Longest validator list the validators-list call returns.
MaxValidators == 2

\* ------------------------------------------------------- program constants

BaseRewardFactor == 64

EthToGwei == 1000000000

\* 32 * EthToGwei, as limbs.
MaxEffectiveBalance == [eth |-> 32, gwei |-> 0]

\* ----------------------------------------------------------------- strings

UpperCase ==
  << "A", "B", "C", "D", "E", "F", "G", "H", "I", "J", "K", "L", "M",
     "N", "O", "P", "Q", "R", "S", "T", "U", "V", "W", "X", "Y", "Z" >>

LowerCase ==
  << "a", "b", "c", "d", "e", "f", "g", "h", "i", "j", "k", "l", "m",
     "n", "o", "p", "q", "r", "s", "t", "u", "v", "w", "x", "y", "z" >>

\* ASCII code of a letter, a space, a dot or an at sign.
Ord(c) ==
  IF \E i \in 1..26 : UpperCase[i] = c
  THEN 64 + CHOOSE i \in 1..26 : UpperCase[i] = c
  ELSE IF \E i \in 1..26 : LowerCase[i] = c
  THEN 96 + CHOOSE i \in 1..26 : LowerCase[i] = c
  ELSE IF c = " " THEN 32 ELSE IF c = "." THEN 46 ELSE 64

\* The bytes of a string of printable characters.
Bytes(s) == [i \in 1..Len(s) |-> Ord(s[i])]

DecDigits == <<"0", "1", "2", "3", "4", "5", "6", "7", "8", "9">>

IsDigit(c) == \E i \in 1..10 : DecDigits[i] = c

DigitVal(c) == (CHOOSE i \in 1..10 : DecDigits[i] = c) - 1

RECURSIVE DecVal(_)
\* Value of a string of decimal digits (at most 9, so that it fits).
DecVal(s) ==
  IF Len(s) = 0 THEN 0
  ELSE 10 * DecVal(SubSeq(s, 1, Len(s) - 1)) + DigitVal(s[Len(s)])

HexLower == <<"0", "1", "2", "3", "4", "5", "6", "7", "8", "9", "a", "b", "c", "d", "e", "f">>

HexUpper == <<"0", "1", "2", "3", "4", "5", "6", "7", "8", "9", "A", "B", "C", "D", "E", "F">>

IsHexDigit(c) == \E i \in 1..16 : HexLower[i] = c \/ HexUpper[i] = c

HexDigitVal(c) == (CHOOSE i \in 1..16 : HexLower[i] = c \/ HexUpper[i] = c) - 1

\* s[n:] of Go, for n <= len(s).
Drop(s, n) == SubSeq(s, n + 1, Len(s))

\* strconv.Atoi / strconv.ParseInt(s, 10, 64): an optional sign, then one or
\* more decimal digits.  (Values beyond the integer width are not drawn.)
Atoi(s) ==
  LET signed == Len(s) > 0 /\ s[1] \in {"+", "-"}
      body == IF signed THEN Drop(s, 1) ELSE s
  IN  IF Len(body) = 0 \/ \E i \in 1..Len(body) : ~IsDigit(body[i])
      THEN [err |-> TRUE, val |-> 0]
      ELSE [err |-> FALSE,
            val |-> IF signed /\ s[1] = "-" THEN 0 - DecVal(body) ELSE DecVal(body)]

\* --------------------------------------------------------------- amounts

Zero == [eth |-> 0, gwei |-> 0]

Gt(a, b) == a.eth > b.eth \/ (a.eth = b.eth /\ a.gwei > b.gwei)

Add(a, b) ==
  LET s == a.gwei + b.gwei
  IN  [eth |-> a.eth + b.eth + (s \div EthToGwei), gwei |-> s % EthToGwei]

\* strconv.ParseFloat(s, 64) on the strings the model draws: a string of
\* decimal digits is its value, the empty string and a string with a
\* character that is no part of a number are errors.
ParseFloat(s) ==
  IF Len(s) = 0 \/ \E i \in 1..Len(s) : ~IsDigit(s[i])
  THEN [err |-> TRUE, val |-> Zero]
  ELSE [err |-> FALSE,
        val |-> IF Len(s) <= 9 THEN [eth |-> 0, gwei |-> DecVal(s)]
                ELSE [eth |-> DecVal(SubSeq(s, 1, Len(s) - 9)),
                      gwei |-> DecVal(Drop(s, Len(s) - 9))]]

\* ------------------------------------------------------------ classifier

\* encoding/hex DecodeString: an odd length or a character that is no hex
\* digit is an error; both letter cases are digits.
HexDecodeString(s) ==
  IF Len(s) % 2 = 1 \/ \E i \in 1..Len(s) : ~IsHexDigit(s[i])
  THEN [err |-> TRUE, bytes |-> <<>>]
  ELSE [err |-> FALSE,
        bytes |-> [i \in 1..(Len(s) \div 2) |->
                     16 * HexDigitVal(s[2 * i - 1]) + HexDigitVal(s[2 * i])]]

\* strings.ToLower on ASCII bytes, without the case fold (the mutant of ToLower).
ToLower_NoFold(bytes) == bytes

\* strings.ToLower on ASCII bytes.
ToLower(bytes) ==
  [i \in 1..Len(bytes) |->
     IF bytes[i] >= 65 /\ bytes[i] <= 90 THEN bytes[i] + 32 ELSE bytes[i]]

\* strings.Contains.
Contains(hay, needle) ==
  \E k \in 0..(Len(hay) - Len(needle)) : SubSeq(hay, k + 1, k + Len(needle)) = needle

knownRelays ==
  << Bytes(<<"a", "e", "s", "t", "u", "s">>),
     Bytes(<<"a", "g", "n", "o", "s", "t", "i", "c">>),
     Bytes(<<"b", "l", "o", "x", "r", "o", "u", "t", "e">>),
     Bytes(<<"e", "d", "e", "n">>),
     Bytes(<<"f", "l", "a", "s", "h", "b", "o", "t", "s">>),
     Bytes(<<"m", "a", "n", "i", "f", "o", "l", "d">>),
     Bytes(<<"u", "l", "t", "r", "a">>),
     Bytes(<<"w", "e", "n", "m", "e", "r", "g", "e">>),
     Bytes(<<"t", "i", "t", "a", "n">>) >>

\* IsMEVBlock on the block's extra-data: extraData[2:] panics on a string
\* shorter than two characters; a decoding error is "not MEV".
IsMEVBlock(extraData) ==
  IF Len(extraData) < 2
  THEN [panic |-> TRUE, mev |-> FALSE]
  ELSE LET dec == HexDecodeString(Drop(extraData, 2))
       IN  IF dec.err
           THEN [panic |-> FALSE, mev |-> FALSE]
           ELSE [panic |-> FALSE,
                 mev |-> \E r \in 1..Len(knownRelays) :
                            Contains(ToLower(dec.bytes), knownRelays[r])]

\* ------------------------------------------------------ execution block

\* A JSON field of a transaction or of the block: absent (or not a string),
\* or a string.
Absent == [has |-> FALSE, s |-> <<>>]

Str(s) == [has |-> TRUE, s |-> s]

\* HexToFloat: hexStr[2:] panics on a string shorter than two characters;
\* strconv.ParseUint(_, 16, 64) fails on the empty string, on a character
\* that is no hex digit and on more than 64 bits.
HexToFloat(hexStr) ==
  IF Len(hexStr) < 2
  THEN [panic |-> TRUE, err |-> FALSE, val |-> 0]
  ELSE LET d == Drop(hexStr, 2)
       IN  IF Len(d) = 0 \/ (\E i \in 1..Len(d) : ~IsHexDigit(d[i])) \/ Len(d) > 16
           THEN [panic |-> FALSE, err |-> TRUE, val |-> 0]
           ELSE [panic |-> FALSE, err |-> FALSE,
                 val |-> LET RECURSIVE V(_)
                             V(n) == IF n = 0 THEN 0
                                     ELSE 16 * V(n - 1) + HexDigitVal(d[n])
                         IN  V(Len(d))]

\* The outcome of a computation on the execution block: a value, an error
\* with its message, or a panic.  included: the indices of the transactions
\* whose product entered the sum.
Outcome(kind, msg, val, included) ==
  [kind |-> kind, msg |-> msg, val |-> val, included |-> included]

\* The field test with the empty-string case forgotten.
FieldMissing_OnlyAbsent(f) == ~f.has

\* `!ok || str == ""`: the field is absent, no string, or the empty string.
FieldMissing(f) == ~f.has \/ f.s = <<>>

RECURSIVE PaymentLoop(_, _, _, _)
\* The loop of CalculateProposerPayment from transaction i on, acc the
\* payment so far.
PaymentLoop(txs, i, acc, inc) ==
  IF i > Len(txs) THEN Outcome("ok", "", acc, inc)
  ELSE
    LET tx == txs[i] IN
    IF FieldMissing(tx.maxPriorityFeePerGas)
    THEN PaymentLoop(txs, i + 1, acc, inc)
    ELSE
      LET fee == HexToFloat(tx.maxPriorityFeePerGas.s) IN
      IF fee.panic THEN Outcome("panic", "", 0, {})
      ELSE IF fee.err THEN Outcome("err", "failed to parse maxPriorityFeePerGas", 0, {})
      ELSE IF FieldMissing(tx.gas)
      THEN PaymentLoop(txs, i + 1, acc, inc)
      ELSE
        LET gasUsed == HexToFloat(tx.gas.s) IN
        IF gasUsed.panic THEN Outcome("panic", "", 0, {})
        ELSE IF gasUsed.err THEN Outcome("err", "failed to parse gas used", 0, {})
        ELSE PaymentLoop(txs, i + 1, acc + fee.val * gasUsed.val, inc \cup {i})

\* A decoded JSON-RPC result: nil (no "result" member), or a map with an
\* optional baseFeePerGas and an optional transaction list.
NilResult == [isNil |-> TRUE, baseFeePerGas |-> Absent, hasTxs |-> FALSE, transactions |-> <<>>]

\* CalculateProposerPayment: the unchecked type assertion on
\* Result["transactions"] panics when the list is absent.
CalculateProposerPayment(result) ==
  IF result.isNil \/ ~result.hasTxs THEN Outcome("panic", "", 0, {})
  ELSE PaymentLoop(result.transactions, 1, 0, {})

\* The tip clamped at zero.
Tip_Clamped(gasPrice, baseFee) == IF gasPrice > baseFee THEN gasPrice - baseFee ELSE 0

\* tip := gasPrice - baseFee
Tip(gasPrice, baseFee) == gasPrice - baseFee

RECURSIVE FeesLoop(_, _, _, _, _)
\* The loop of CalculateTransactionFees from transaction i on.
FeesLoop(txs, baseFee, i, acc, inc) ==
  IF i > Len(txs) THEN Outcome("ok", "", acc, inc)
  ELSE
    LET tx == txs[i] IN
    IF ~tx.gas.has THEN Outcome("panic", "", 0, {})
    ELSE
      LET gasUsed == HexToFloat(tx.gas.s) IN
      IF gasUsed.panic THEN Outcome("panic", "", 0, {})
      ELSE IF gasUsed.err THEN Outcome("err", "failed to parse gas used", 0, {})
      ELSE IF ~tx.gasPrice.has THEN Outcome("panic", "", 0, {})
      ELSE
        LET gasPrice == HexToFloat(tx.gasPrice.s) IN
        IF gasPrice.panic THEN Outcome("panic", "", 0, {})
        ELSE IF gasPrice.err THEN Outcome("err", "failed to parse gas price", 0, {})
        ELSE FeesLoop(txs, baseFee, i + 1,
                      acc + Tip(gasPrice.val, baseFee) * gasUsed.val, inc \cup {i})

\* CalculateTransactionFees: the unchecked type assertions panic on an absent
\* baseFeePerGas, transaction list, gas or gasPrice.
CalculateTransactionFees(result) ==
  IF result.isNil \/ ~result.baseFeePerGas.has THEN Outcome("panic", "", 0, {})
  ELSE
    LET baseFee == HexToFloat(result.baseFeePerGas.s) IN
    IF baseFee.panic THEN Outcome("panic", "", 0, {})
    ELSE IF baseFee.err THEN Outcome("err", "failed to parse base fee per gas", 0, {})
    ELSE IF ~result.hasTxs THEN Outcome("panic", "", 0, {})
    ELSE FeesLoop(result.transactions, baseFee.val, 1, 0, {})

\* ------------------------------------------------------------ base reward

\* The effective balance used as fetched.
Clamp_None(effectiveBalance) == effectiveBalance

\* if effectiveBalance > MaxEffectiveBalance { effectiveBalance = MaxEffectiveBalance }
Clamp(effectiveBalance) ==
  IF Gt(effectiveBalance, MaxEffectiveBalance) THEN MaxEffectiveBalance ELSE effectiveBalance

\* (BaseRewardFactor * effectiveBalance) / math.Sqrt(totalStaked), kept as
\* its three operands.
BaseReward(effectiveBalance, totalStaked) ==
  [factor |-> BaseRewardFactor, balance |-> effectiveBalance, stake |-> totalStaked]

NoBaseReward == [factor |-> 0, balance |-> Zero, stake |-> Zero]

NoTotalReward == [base |-> NoBaseReward, wei |-> 0]

\* fmt.Sprintf("%.3f", totalReward/1e9), kept as the value, the divisor and
\* the number of decimals.
Sprintf3(totalReward) == [value |-> totalReward, divisor |-> 1000000000, decimals |-> 3]

\* ---------------------------------------------------------- beacon client

\* An upstream HTTP exchange: err is a transport failure (no response);
\* otherwise code is the status and json tells whether the body decodes into
\* the expected type, data being what it decodes to (absent members are
\* zero values).
NoBlock == [ExtraData |-> <<>>, ProposerIndex |-> <<>>, BlockNumber |-> <<>>]

\* FetchBlockData: transport failure, a status other than 200 and a body
\* that does not decode are errors.
FetchBlockData(resp) ==
  IF resp.err \/ resp.code # 200 \/ ~resp.json
  THEN [err |-> TRUE, val |-> NoBlock]
  ELSE [err |-> FALSE, val |-> resp.data]

\* FetchValidatorBalance: the status is not looked at.
FetchValidatorBalance(resp) ==
  IF resp.err \/ ~resp.json THEN [err |-> TRUE, val |-> Zero]
  ELSE ParseFloat(resp.data)

RECURSIVE SumBalances(_, _, _)
\* The loop of FetchTotalStaked over the decoded list.
SumBalances(list, i, totalStaked) ==
  IF i > Len(list) THEN [err |-> FALSE, val |-> totalStaked]
  ELSE LET balance == ParseFloat(list[i])
       IN  IF balance.err THEN [err |-> TRUE, val |-> Zero]
           ELSE SumBalances(list, i + 1, Add(totalStaked, balance.val))

\* FetchTotalStaked: the status is not looked at; a body without a data
\* list decodes to the empty list.
FetchTotalStaked(resp) ==
  IF resp.err \/ ~resp.json THEN [err |-> TRUE, val |-> Zero]
  ELSE SumBalances(resp.data, 1, Zero)

\* FetchBlockDetails: the status is not looked at.
FetchBlockDetails(resp) ==
  IF resp.err THEN [err |-> TRUE, msg |-> "failed to send RPC request", val |-> NilResult]
  ELSE IF ~resp.json
  THEN [err |-> TRUE, msg |-> "failed to decode RPC response", val |-> NilResult]
  ELSE [err |-> FALSE, msg |-> "", val |-> resp.data]

\* ------------------------------------------------- what the upstream sends

\* The request's slot parameter.
SlotParams == { <<"0">>, <<"5">>, <<"-", "1">>, <<"x">>, <<>>, <<"-">> }

\* hex.EncodeToString with the given digit table.
HexEncode(bytes, digits) ==
  [i \in 1..(2 * Len(bytes)) |->
     IF i % 2 = 1 THEN digits[(bytes[(i + 1) \div 2] \div 16) + 1]
     ELSE digits[(bytes[i \div 2] % 16) + 1]]

\* Texts a builder may put in the extra-data.
Payloads ==
  { <<"a", "e", "s", "t", "u", "s">>,
    <<"a", "g", "n", "o", "s", "t", "i", "c">>,
    <<"b", "l", "o", "x", "r", "o", "u", "t", "e">>,
    <<"e", "d", "e", "n">>,
    <<"f", "l", "a", "s", "h", "b", "o", "t", "s">>,
    <<"m", "a", "n", "i", "f", "o", "l", "d">>,
    <<"u", "l", "t", "r", "a">>,
    <<"w", "e", "n", "m", "e", "r", "g", "e">>,
    <<"t", "i", "t", "a", "n">>,
    <<"F", "l", "a", "s", "h", "b", "o", "t", "s">>,
    <<"E", "D", "E", "N">>,
    <<"b", "y", " ", "b", "l", "o", "X", "r", "o", "u", "t", "e">>,
    <<"x", "T", "i", "t", "a", "n", "x">>,
    <<"g", "e", "t", "h">>,
    <<"f", "l", "a", "s", "h", "b", "o", "t">>,
    <<"b", "e", "a", "v", "e", "r", "b", "u", "i", "l", "d", ".", "o", "r", "g">>,
    <<>> }

\* extra_data values: the payloads 0x-prefixed in lowercase hex, one in
\* uppercase hex, and values that are no 0x-prefixed hex string.
ExtraDataInputs ==
  { <<"0", "x">> \o HexEncode(Bytes(w), HexLower) : w \in Payloads }
  \cup { <<"0", "x">> \o HexEncode(Bytes(<<"F", "l", "a", "s", "h", "b", "o", "t", "s">>), HexUpper),
         <<>>, <<"0">>, <<"0", "x", "6">>, <<"0", "x", "z", "z">>,
         HexEncode(Bytes(<<"e", "d", "e", "n">>), HexLower),
         <<"z", "z">> \o HexEncode(Bytes(<<"e", "d", "e", "n">>), HexLower) }

ProposerIndexInputs == { <<"7">>, <<>>, <<"x">> }

BlockNumberInputs == { <<"9">>, <<>>, <<"0", "x", "9">> }

TransportFailure(zero) == [err |-> TRUE, code |-> 0, json |-> FALSE, data |-> zero]

Response(code, json, data) == [err |-> FALSE, code |-> code, json |-> json, data |-> data]

BlockResponses ==
  { TransportFailure(NoBlock), Response(404, TRUE, NoBlock), Response(200, FALSE, NoBlock) }
  \cup { Response(200, TRUE, [ExtraData |-> e, ProposerIndex |-> p, BlockNumber |-> b]) :
           e \in ExtraDataInputs, p \in ProposerIndexInputs, b \in BlockNumberInputs }

\* n whole ETH plus g Gwei as a decimal string of Gwei (1 <= n <= 99, g <= 9).
GweiString(n, g) ==
  (IF n >= 10 THEN <<DecDigits[(n \div 10) + 1]>> ELSE <<>>)
  \o <<DecDigits[(n % 10) + 1]>>
  \o <<"0", "0", "0", "0", "0", "0", "0", "0">> \o <<DecDigits[g + 1]>>

BalanceInputs ==
  { GweiString(31, 0), GweiString(32, 0), GweiString(32, 1), GweiString(40, 0),
    <<>>, <<"a", "b", "c">> }

ValidatorResponses ==
  { TransportFailure(<<>>), Response(404, TRUE, <<>>), Response(200, FALSE, <<>>) }
  \cup { Response(200, TRUE, b) : b \in BalanceInputs }

RECURSIVE SeqsUpTo(_, _)
\* The sequences over S of length at most n.
SeqsUpTo(S, n) ==
  IF n = 0 THEN { <<>> }
  ELSE LET shorter == SeqsUpTo(S, n - 1)
       IN  shorter \cup { Append(q, x) : q \in shorter, x \in S }

ValidatorsResponses ==
  { TransportFailure(<<>>), Response(404, TRUE, <<>>), Response(200, FALSE, <<>>) }
  \cup { Response(200, TRUE, l) :
           l \in SeqsUpTo({ GweiString(32, 0), <<"x">> }, MaxValidators) }

Tx(fee, gas, gasPrice) == [maxPriorityFeePerGas |-> fee, gas |-> gas, gasPrice |-> gasPrice]

Hex(d) == Str(<<"0", "x", d>>)

\* Transactions of an execution block: a fee-market one, a legacy one paying
\* less than the base fee, ones with an empty or missing field, one with a
\* value that is no hex number, one with a one-character value.
TxInputs ==
  { Tx(Hex("2"), Hex("3"), Hex("5")),
    Tx(Absent, Hex("2"), Hex("1")),
    Tx(Str(<<>>), Hex("1"), Hex("3")),
    Tx(Hex("1"), Absent, Hex("2")),
    Tx(Hex("3"), Str(<<>>), Hex("2")),
    Tx(Hex("q"), Hex("1"), Hex("q")),
    Tx(Str(<<"7">>), Hex("1"), Absent) }

BaseFeeInputs == { Hex("2"), Hex("q"), Absent }

Result(baseFee, hasTxs, txs) ==
  [isNil |-> FALSE, baseFeePerGas |-> baseFee, hasTxs |-> hasTxs, transactions |-> txs]

RPCResponses ==
  { TransportFailure(NilResult), Response(200, FALSE, NilResult),
    Response(200, TRUE, NilResult), Response(500, TRUE, NilResult) }
  \cup { Response(200, TRUE, Result(f, FALSE, <<>>)) : f \in BaseFeeInputs }
  \cup { Response(200, TRUE, Result(f, TRUE, txs)) :
           f \in BaseFeeInputs, txs \in SeqsUpTo(TxInputs, MaxTxs) }

\* The claims' notion of a failed upstream call: no response, a non-success
\* status, or a body that is no well-formed JSON of the expected type.
UpstreamBad(resp) == resp.err \/ resp.code # 200 \/ ~resp.json

\* ------------------------------------------------------------------ state

VARIABLES
  pc,               \* the request's position: "idle", a step, or "done"
  reqPath,          \* the route pattern of the request served by the router ("" if none)
  handler,          \* the handler that runs the request
  slotParam,        \* c.Param("slot")
  slot,             \* the parsed slot
  blockData,        \* GetBlockReward: *BlockData (the fields it reads)
  isMEV,
  status,
  proposerIndex,
  fetchedBalance,   \* CalculateBaseReward: what FetchValidatorBalance returned
  effectiveBalance, \* CalculateBaseReward: the local effectiveBalance
  totalStaked,      \* CalculateBaseReward: the local totalStaked
  baseReward,
  totalReward,
  blockNumber,
  blockDetails,     \* the decoded Result of the execution block
  component,        \* what CalculateProposerPayment / CalculateTransactionFees returned
  latestSlot,       \* GetSyncDuties: what GetLatestSlot returned
  calls,            \* the upstream calls made, in order
  steps,            \* the steps run, in order
  lastFetch,        \* the last beacon client operation: its response and its result
  failedStep,       \* the first step whose upstream call or parse failed ("" if none)
  panicked,
  respCode,         \* the HTTP status written (0: none yet)
  respError,        \* the "error" member of the body ("" if none)
  respStatus,       \* the "status" member of the body ("" if none)
  respReward,       \* the "reward" member of the body (<<>> if none)
  respValidators    \* the "validators" member of the body (<<>> if none)

reqVars == <<reqPath, handler, slotParam, slot>>

blockVars == <<blockData, isMEV, status, proposerIndex>>

baseVars == <<fetchedBalance, effectiveBalance, totalStaked, baseReward, totalReward>>

execVars == <<blockNumber, blockDetails, component>>

respVars == <<respCode, respError, respStatus, respReward, respValidators, panicked>>

vars ==
  <<pc, reqVars, blockVars, baseVars, execVars, latestSlot, calls, steps, lastFetch,
    failedStep, respVars>>

NoFetch == [op |-> "", bad |-> FALSE, err |-> FALSE]

NoComponent == Outcome("", "", 0, {})

Init ==
  /\ pc = "idle"
  /\ reqPath = ""
  /\ handler = ""
  /\ slotParam = <<>>
  /\ slot = 0
  /\ blockData = NoBlock
  /\ isMEV = FALSE
  /\ status = ""
  /\ proposerIndex = 0
  /\ fetchedBalance = Zero
  /\ effectiveBalance = Zero
  /\ totalStaked = Zero
  /\ baseReward = NoBaseReward
  /\ totalReward = NoTotalReward
  /\ blockNumber = 0
  /\ blockDetails = NilResult
  /\ component = NoComponent
  /\ latestSlot = 0
  /\ calls = <<>>
  /\ steps = <<>>
  /\ lastFetch = NoFetch
  /\ failedStep = ""
  /\ panicked = FALSE
  /\ respCode = 0
  /\ respError = ""
  /\ respStatus = ""
  /\ respReward = <<>>
  /\ respValidators = <<>>

\* ---------------------------------------------------------------- router

\* The routes main registers on the router it runs.
routes == [p \in {"/syncduties/:slot"} |-> "GetSyncDuties"]

RequestPaths == {"/blockreward/:slot", "/syncduties/:slot"}

\* The handler entered past its slot validation.
FirstStep_SkipValidation(h) == IF h = "GetBlockReward" THEN "FetchBlock" ELSE "SD_ValidateSlot"

FirstStep(h) == IF h = "GetBlockReward" THEN "ValidateSlot" ELSE "SD_ValidateSlot"

\* c.JSON(code, gin.H{"error": msg}); return
Fail(code, msg) ==
  /\ pc' = "done"
  /\ respCode' = code
  /\ respError' = msg
  /\ UNCHANGED <<respStatus, respReward, respValidators, panicked>>

\* A panic in the handler: the Recovery middleware of gin.Default() aborts
\* the request with status 500 and no body.
Panic ==
  /\ pc' = "done"
  /\ panicked' = TRUE
  /\ respCode' = 500
  /\ UNCHANGED <<respError, respStatus, respReward, respValidators>>

\* The router of main serves a GET request: the handler of a registered
\* route runs, any other path is answered 404.
ServeHTTP(path, param) ==
  /\ pc = "idle"
  /\ reqPath' = path
  /\ slotParam' = param
  /\ IF path \in DOMAIN routes
     THEN /\ handler' = routes[path]
          /\ pc' = FirstStep(routes[path])
          /\ UNCHANGED respVars
     ELSE /\ handler' = "NoRoute"
          /\ Fail(404, "")
  /\ UNCHANGED <<slot, blockVars, baseVars, execVars, latestSlot, calls, steps, lastFetch,
                 failedStep>>

\* GetBlockReward run on a request context of its own (as a router that
\* registers it, or a test, would run it).
CallGetBlockReward(param) ==
  /\ pc = "idle"
  /\ handler' = "GetBlockReward"
  /\ slotParam' = param
  /\ pc' = FirstStep("GetBlockReward")
  /\ UNCHANGED <<reqPath, slot, blockVars, baseVars, execVars, latestSlot, calls, steps,
                 lastFetch, failedStep, respVars>>

\* ---------------------------------------------------------- GetBlockReward

\* The validation without the sign test.
SlotInvalid_NoSignTest(param) == Atoi(param).err

\* err != nil || slot < 0
SlotInvalid(param) == Atoi(param).err \/ Atoi(param).val < 0

Step(name) == steps' = Append(steps, name)

Call(name) == calls' = Append(calls, name)

Failed(name, cond) == failedStep' = IF failedStep = "" /\ cond THEN name ELSE failedStep

ValidateSlot ==
  /\ pc = "ValidateSlot"
  /\ Step("ValidateSlot")
  /\ IF SlotInvalid(slotParam)
     THEN Fail(400, "Invalid slot number") /\ UNCHANGED slot
     ELSE /\ slot' = Atoi(slotParam).val
          /\ pc' = "FetchBlock"
          /\ UNCHANGED respVars
  /\ UNCHANGED <<reqPath, handler, slotParam, blockVars, baseVars, execVars, latestSlot,
                 calls, lastFetch, failedStep>>

FetchBlock(resp) ==
  /\ pc = "FetchBlock"
  /\ Step("FetchBlock")
  /\ Call("beacon block")
  /\ LET r == FetchBlockData(resp) IN
     /\ lastFetch' = [op |-> "FetchBlockData", bad |-> UpstreamBad(resp), err |-> r.err]
     /\ Failed("FetchBlock", UpstreamBad(resp) \/ r.err)
     /\ IF r.err
        THEN Fail(500, "Failed to fetch block data") /\ UNCHANGED blockData
        ELSE /\ blockData' = r.val
             /\ pc' = "Classify"
             /\ UNCHANGED respVars
  /\ UNCHANGED <<reqVars, isMEV, status, proposerIndex, baseVars, execVars, latestSlot>>

\* status := "Vanilla Block"; if isMEV { status = "MEV Relay" }
StatusOf(mev) == IF mev THEN "MEV Relay" ELSE "Vanilla Block"

Classify ==
  /\ pc = "Classify"
  /\ Step("Classify")
  /\ LET c == IsMEVBlock(blockData.ExtraData) IN
     IF c.panic
     THEN Panic /\ UNCHANGED <<isMEV, status>>
     ELSE /\ isMEV' = c.mev
          /\ status' = StatusOf(c.mev)
          /\ pc' = "ResolveProposer"
          /\ UNCHANGED respVars
  /\ UNCHANGED <<reqVars, blockData, proposerIndex, baseVars, execVars, latestSlot, calls,
                 lastFetch, failedStep>>

\* The extra-data is read by IsMEVBlock alone and the proposer index here
\* alone: the model forgets a field of blockData at the step after its last read.
ResolveProposer ==
  /\ pc = "ResolveProposer"
  /\ Step("ResolveProposer")
  /\ LET r == Atoi(blockData.ProposerIndex) IN
     /\ Failed("ResolveProposer", r.err)
     /\ IF r.err
        THEN Fail(500, "Invalid proposer index") /\ UNCHANGED proposerIndex
        ELSE /\ proposerIndex' = r.val
             /\ pc' = "FetchValidatorBalance"
             /\ UNCHANGED respVars
  /\ blockData' = [blockData EXCEPT !.ExtraData = <<>>]
  /\ UNCHANGED <<reqVars, isMEV, status, baseVars, execVars, latestSlot, calls, lastFetch>>

\* CalculateBaseReward, first call.
FetchBalance(resp) ==
  /\ pc = "FetchValidatorBalance"
  /\ Step("FetchValidatorBalance")
  /\ Call("validator balance")
  /\ LET r == FetchValidatorBalance(resp) IN
     /\ lastFetch' = [op |-> "FetchValidatorBalance", bad |-> UpstreamBad(resp), err |-> r.err]
     /\ Failed("ComputeBaseReward", UpstreamBad(resp) \/ r.err)
     /\ IF r.err
        THEN /\ Fail(500, "Failed to calculate base reward: failed to fetch validator balance")
             /\ UNCHANGED <<fetchedBalance, effectiveBalance>>
        ELSE /\ fetchedBalance' = r.val
             /\ effectiveBalance' = r.val
             /\ pc' = "FetchTotalStaked"
             /\ UNCHANGED respVars
  /\ blockData' = [blockData EXCEPT !.ProposerIndex = <<>>]
  /\ UNCHANGED <<reqVars, isMEV, status, proposerIndex, totalStaked, baseReward, totalReward,
                 execVars, latestSlot>>

\* CalculateBaseReward, second call.
FetchStake(resp) ==
  /\ pc = "FetchTotalStaked"
  /\ Step("FetchTotalStaked")
  /\ Call("total stake")
  /\ LET r == FetchTotalStaked(resp) IN
     /\ lastFetch' = [op |-> "FetchTotalStaked", bad |-> UpstreamBad(resp), err |-> r.err]
     /\ Failed("ComputeBaseReward", UpstreamBad(resp) \/ r.err)
     /\ IF r.err
        THEN /\ Fail(500, "Failed to calculate base reward: failed to fetch total staked")
             /\ UNCHANGED totalStaked
        ELSE /\ totalStaked' = r.val
             /\ pc' = "ComputeBaseReward"
             /\ UNCHANGED respVars
  /\ UNCHANGED <<reqVars, blockVars, fetchedBalance, effectiveBalance, baseReward,
                 totalReward, execVars, latestSlot>>

\* CalculateBaseReward, the clamp and the formula; then totalReward := baseReward.
ComputeBaseReward ==
  /\ pc = "ComputeBaseReward"
  /\ Step("ComputeBaseReward")
  /\ effectiveBalance' = Clamp(effectiveBalance)
  /\ baseReward' = BaseReward(effectiveBalance', totalStaked)
  /\ totalReward' = [base |-> baseReward', wei |-> 0]
  /\ pc' = "ParseBlockNumber"
  /\ UNCHANGED <<reqVars, blockVars, fetchedBalance, totalStaked, execVars, latestSlot, calls,
                 lastFetch, failedStep, respVars>>

\* strconv.ParseInt(BlockNumber, 10, 64).  CalculateBaseReward has returned:
\* its locals are gone.
ParseBlockNumber ==
  /\ pc = "ParseBlockNumber"
  /\ Step("ParseBlockNumber")
  /\ LET r == Atoi(blockData.BlockNumber) IN
     /\ Failed("ParseBlockNumber", r.err)
     /\ IF r.err
        THEN Fail(500, "Invalid block number") /\ UNCHANGED blockNumber
        ELSE /\ blockNumber' = r.val
             /\ pc' = "FetchExecutionBlock"
             /\ UNCHANGED respVars
  /\ fetchedBalance' = Zero
  /\ effectiveBalance' = Zero
  /\ totalStaked' = Zero
  /\ UNCHANGED <<reqVars, blockVars, baseReward, totalReward, blockDetails, component,
                 latestSlot, calls, lastFetch>>

\* The branch on isMEV inverted.
ComponentStep_Swapped(mev) == IF mev THEN "ComputeTxFees" ELSE "ComputeMEVPayment"

\* if isMEV { CalculateProposerPayment } else { CalculateTransactionFees }
ComponentStep(mev) == IF mev THEN "ComputeMEVPayment" ELSE "ComputeTxFees"

FetchExecutionBlock(resp) ==
  /\ pc = "FetchExecutionBlock"
  /\ Step("FetchExecutionBlock")
  /\ Call("execution block")
  /\ LET r == FetchBlockDetails(resp) IN
     /\ lastFetch' = [op |-> "FetchBlockDetails", bad |-> UpstreamBad(resp), err |-> r.err]
     /\ Failed("FetchExecutionBlock", UpstreamBad(resp) \/ r.err)
     /\ IF r.err
        THEN /\ Fail(500, "Failed to fetch block details: " \o r.msg)
             /\ UNCHANGED blockDetails
        ELSE /\ blockDetails' = r.val
             /\ pc' = ComponentStep(isMEV)
             /\ UNCHANGED respVars
  /\ blockData' = [blockData EXCEPT !.BlockNumber = <<>>]
  /\ UNCHANGED <<reqVars, isMEV, status, proposerIndex, baseVars, blockNumber, component,
                 latestSlot>>

\* totalReward += component
Combine(total, o) == [total EXCEPT !.wei = @ + o.val]

\* The last computation of the pipeline: o is what it returned, prefix the
\* handler's message for its error.
ComputeComponent(name, o, prefix) ==
  /\ Step(name)
  /\ component' = o
  /\ Failed(name, o.kind # "ok")
  /\ IF o.kind = "panic" THEN Panic /\ UNCHANGED totalReward
     ELSE IF o.kind = "err" THEN Fail(500, prefix \o o.msg) /\ UNCHANGED totalReward
     ELSE /\ totalReward' = Combine(totalReward, o)
          /\ pc' = "Format"
          /\ UNCHANGED respVars
  /\ UNCHANGED <<reqVars, blockVars, fetchedBalance, effectiveBalance, totalStaked, baseReward,
                 blockNumber, blockDetails, latestSlot, calls, lastFetch>>

ComputeMEVPayment ==
  /\ pc = "ComputeMEVPayment"
  /\ ComputeComponent("ComputeMEVPayment", CalculateProposerPayment(blockDetails),
                      "Failed to calculate proposer payment: ")

ComputeTxFees ==
  /\ pc = "ComputeTxFees"
  /\ ComputeComponent("ComputeTxFees", CalculateTransactionFees(blockDetails),
                      "Failed to calculate transaction fees: ")

\* finalReward := Sprintf("%.3f", totalReward/1e9); c.JSON(200, response)
Format ==
  /\ pc = "Format"
  /\ Step("Format")
  /\ pc' = "done"
  /\ respCode' = 200
  /\ respStatus' = status
  /\ respReward' = <<Sprintf3(totalReward)>>
  /\ UNCHANGED <<respError, respValidators, panicked>>
  /\ UNCHANGED <<reqVars, blockVars, baseVars, execVars, latestSlot, calls, lastFetch,
                 failedStep>>

\* ----------------------------------------------------------- GetSyncDuties

HeadersResponses ==
  { TransportFailure(<<>>), Response(200, FALSE, <<>>), Response(404, TRUE, <<>>),
    Response(200, TRUE, << <<"3">> >>), Response(200, TRUE, << <<"9">> >>),
    Response(200, TRUE, << <<"x">> >>) }

DutiesResponses ==
  { TransportFailure(<<>>), Response(404, TRUE, <<>>), Response(500, TRUE, <<>>),
    Response(503, TRUE, <<>>), Response(200, FALSE, <<>>), Response(200, TRUE, <<>>),
    Response(200, TRUE, <<"pubkey1", "pubkey2">>) }

\* GetLatestSlot: response.Data[0] panics on an empty list.
GetLatestSlot(resp) ==
  IF resp.err \/ ~resp.json THEN [panic |-> FALSE, err |-> TRUE, val |-> 0]
  ELSE IF Len(resp.data) = 0 THEN [panic |-> TRUE, err |-> FALSE, val |-> 0]
  ELSE [panic |-> FALSE, err |-> Atoi(resp.data[1]).err, val |-> Atoi(resp.data[1]).val]

statusMap(code) ==
  IF code = 404 THEN "Slot not found or no duties available"
  ELSE IF code = 500 THEN "Unexpected server error"
  ELSE ""

SD_ValidateSlot ==
  /\ pc = "SD_ValidateSlot"
  /\ Step("SD_ValidateSlot")
  /\ IF Atoi(slotParam).err \/ Atoi(slotParam).val < 0
     THEN Fail(400, "Invalid slot number") /\ UNCHANGED slot
     ELSE /\ slot' = Atoi(slotParam).val
          /\ pc' = "SD_GetLatestSlot"
          /\ UNCHANGED respVars
  /\ UNCHANGED <<reqPath, handler, slotParam, blockVars, baseVars, execVars, latestSlot,
                 calls, lastFetch, failedStep>>

SD_GetLatestSlot(resp) ==
  /\ pc = "SD_GetLatestSlot"
  /\ Step("SD_GetLatestSlot")
  /\ Call("beacon headers")
  /\ LET r == GetLatestSlot(resp) IN
     IF r.panic THEN Panic /\ UNCHANGED latestSlot
     ELSE IF r.err THEN Fail(500, "Failed to fetch latest slot") /\ UNCHANGED latestSlot
     ELSE IF slot > r.val
     THEN /\ Fail(400, "Requested slot is too far in the future to have duties available")
          /\ latestSlot' = r.val
     ELSE /\ latestSlot' = r.val
          /\ pc' = "SD_FetchDuties"
          /\ UNCHANGED respVars
  /\ UNCHANGED <<reqVars, blockVars, baseVars, execVars, lastFetch, failedStep>>

SD_FetchDuties(resp) ==
  /\ pc = "SD_FetchDuties"
  /\ Step("SD_FetchDuties")
  /\ Call("sync committees")
  /\ IF resp.err THEN Fail(500, "Failed to fetch data")
     ELSE IF resp.code # 200 THEN Fail(resp.code, statusMap(resp.code))
     ELSE IF ~resp.json THEN Fail(500, "Failed to parse response")
     ELSE /\ pc' = "done"
          /\ respCode' = 200
          /\ respValidators' = <<resp.data>>
          /\ UNCHANGED <<respError, respStatus, respReward, panicked>>
  /\ UNCHANGED <<reqVars, blockVars, baseVars, execVars, latestSlot, lastFetch, failedStep>>

\* ---------------------------------------------------------- specification

\* Each step that takes an answer of the upstream tests the position before
\* the answer is drawn.
Serve == pc = "idle" /\ \E path \in RequestPaths, param \in SlotParams : ServeHTTP(path, param)

Invoke == pc = "idle" /\ \E param \in SlotParams : CallGetBlockReward(param)

OnBlock == pc = "FetchBlock" /\ \E resp \in BlockResponses : FetchBlock(resp)

OnBalance == pc = "FetchValidatorBalance" /\ \E resp \in ValidatorResponses : FetchBalance(resp)

OnStake == pc = "FetchTotalStaked" /\ \E resp \in ValidatorsResponses : FetchStake(resp)

OnExecutionBlock ==
  pc = "FetchExecutionBlock" /\ \E resp \in RPCResponses : FetchExecutionBlock(resp)

OnHeaders == pc = "SD_GetLatestSlot" /\ \E resp \in HeadersResponses : SD_GetLatestSlot(resp)

OnDuties == pc = "SD_FetchDuties" /\ \E resp \in DutiesResponses : SD_FetchDuties(resp)

Next ==
  \/ Serve
  \/ Invoke
  \/ ValidateSlot
  \/ OnBlock
  \/ Classify
  \/ ResolveProposer
  \/ OnBalance
  \/ OnStake
  \/ ComputeBaseReward
  \/ ParseBlockNumber
  \/ OnExecutionBlock
  \/ ComputeMEVPayment
  \/ ComputeTxFees
  \/ Format
  \/ SD_ValidateSlot
  \/ OnHeaders
  \/ OnDuties

Spec == Init /\ [][Next]_vars

\* ----------------------------------------------------------------- claims

InBlockReward == handler = "GetBlockReward"

LastStep == IF steps = <<>> THEN "" ELSE steps[Len(steps)]

AllDigits(t) == Len(t) > 0 /\ \A i \in 1..Len(t) : t[i] \in {"0", "1", "2", "3", "4", "5", "6", "7", "8", "9"}

\* The slot parameter is a non-negative integer: digits, +digits, or -0...0.
NonNegativeInteger(t) ==
  \/ AllDigits(t)
  \/ Len(t) > 1 /\ t[1] = "+" /\ AllDigits(Tail(t))
  \/ Len(t) > 1 /\ t[1] = "-" /\ AllDigits(Tail(t)) /\ \A i \in 2..Len(t) : t[i] = "0"

\* C1: a GetBlockReward request whose slot parameter is no non-negative
\* integer is answered 400, and no upstream call is made at any point of it.
C1_InvalidSlotRejected ==
  (InBlockReward /\ ~NonNegativeInteger(slotParam)) =>
    /\ calls = <<>>
    /\ pc \in {"ValidateSlot", "done"}
    /\ pc = "done" => (respCode = 400 /\ respStatus = "" /\ respReward = <<>>)

\* C1 witness: the slot -1 has been answered 400.
C1_Witness ==
  InBlockReward /\ slotParam = <<"-", "1">> /\ pc = "done" /\ respCode = 400 /\ calls = <<>>

\* C2: a 200 response carries base reward + exactly one component, the MEV
\* payment under the label "MEV Relay", the tip total under "Vanilla Block".
C2_TotalIsBasePlusOneComponent ==
  (InBlockReward /\ respCode = 200) =>
    /\ respStatus \in {"MEV Relay", "Vanilla Block"}
    /\ Len(respReward) = 1
    /\ respReward[1].value.base = baseReward
    /\ respStatus = "MEV Relay" =>
         /\ CalculateProposerPayment(blockDetails).kind = "ok"
         /\ respReward[1].value.wei = CalculateProposerPayment(blockDetails).val
    /\ respStatus = "Vanilla Block" =>
         /\ CalculateTransactionFees(blockDetails).kind = "ok"
         /\ respReward[1].value.wei = CalculateTransactionFees(blockDetails).val

\* C2 witness: a 200 for an MEV block whose MEV payment and tip total are
\* both computable, non-zero and different.
C2_Witness ==
  /\ InBlockReward /\ respCode = 200 /\ respStatus = "MEV Relay"
  /\ CalculateProposerPayment(blockDetails).kind = "ok"
  /\ CalculateTransactionFees(blockDetails).kind = "ok"
  /\ CalculateProposerPayment(blockDetails).val # 0
  /\ CalculateTransactionFees(blockDetails).val # 0
  /\ CalculateProposerPayment(blockDetails).val # CalculateTransactionFees(blockDetails).val

\* C3: once a pipeline step has met a transport, parse or malformed-data
\* error, the request is over with a 500 that carries an error message and
\* neither status nor reward.
C3_FailFast ==
  (InBlockReward /\ failedStep # "") =>
    /\ pc = "done"
    /\ respCode = 500
    /\ respError # ""
    /\ respStatus = ""
    /\ respReward = <<>>

\* C4: a beacon client operation whose response has a non-success status or
\* a malformed body returns an error.
C4_BadResponseIsError ==
  (lastFetch.op \in {"FetchBlockData", "FetchValidatorBalance", "FetchTotalStaked"}
     /\ lastFetch.bad) => lastFetch.err

\* C5: a request for /blockreward/{slot} on the router of main reaches
\* GetBlockReward.
C5_BlockRewardRouteServed ==
  (reqPath = "/blockreward/:slot" /\ pc # "idle") =>
    (handler = "GetBlockReward" /\ respCode # 404)

\* C6: IsMEVBlock on an extra-data that does not decode (shorter than two
\* characters included) returns false and does not abort the request.
C6_DecodeFailureIsNotMEV ==
  (InBlockReward /\ LastStep = "Classify"
     /\ (Len(blockData.ExtraData) < 2 \/ HexDecodeString(Drop(blockData.ExtraData, 2)).err)) =>
    (~panicked /\ pc = "ResolveProposer" /\ isMEV = FALSE)

RelayFragments ==
  { <<"a", "e", "s", "t", "u", "s">>,
    <<"a", "g", "n", "o", "s", "t", "i", "c">>,
    <<"b", "l", "o", "x", "r", "o", "u", "t", "e">>,
    <<"e", "d", "e", "n">>,
    <<"f", "l", "a", "s", "h", "b", "o", "t", "s">>,
    <<"m", "a", "n", "i", "f", "o", "l", "d">>,
    <<"u", "l", "t", "r", "a">>,
    <<"w", "e", "n", "m", "e", "r", "g", "e">>,
    <<"t", "i", "t", "a", "n">> }

\* The n-th byte of the hex string that follows the two-character prefix.
ByteAt(e, n) == 16 * HexDigitVal(e[2 * n + 1]) + HexDigitVal(e[2 * n + 2])

Fold(b) == IF b \in 65..90 THEN b + 32 ELSE b

Decodable(e) ==
  Len(e) >= 2 /\ Len(e) % 2 = 0 /\ \A i \in 3..Len(e) : IsHexDigit(e[i])

\* C7: for an extra-data that decodes, IsMEVBlock is true iff the decoded
\* bytes, folded to lowercase, contain a relay fragment at some offset; the
\* label is "MEV Relay" exactly when it is.
C7_SubstringMatch ==
  /\ (InBlockReward /\ LastStep = "Classify" /\ Decodable(blockData.ExtraData)) =>
       LET e == blockData.ExtraData
           n == (Len(e) - 2) \div 2
       IN  /\ ~panicked
           /\ isMEV <=> \E f \in RelayFragments : \E k \in 0..(n - Len(f)) :
                          \A j \in 1..Len(f) : Fold(ByteAt(e, k + j)) = Ord(f[j])
           /\ status = IF isMEV THEN "MEV Relay" ELSE "Vanilla Block"
  /\ (InBlockReward /\ respCode = 200) => (respStatus = "MEV Relay" <=> isMEV)

\* C7 witness: "by bloXroute" (a fragment in mixed case, not at the start)
\* has been classified MEV.
C7_Witness ==
  /\ InBlockReward /\ LastStep = "Classify" /\ isMEV /\ status = "MEV Relay"
  /\ blockData.ExtraData = <<"0", "x">> \o HexEncode(Bytes(<<"b", "y", " ", "b", "l", "o", "X", "r", "o", "u", "t", "e">>), HexLower)

\* C8: the balance that enters the base reward is the smaller of the
\* fetched balance and 32_000_000_000 Gwei.
C8_BalanceClamped ==
  (InBlockReward /\ LastStep = "ComputeBaseReward") =>
    /\ baseReward.balance =
         IF fetchedBalance.eth < 32 \/ (fetchedBalance.eth = 32 /\ fetchedBalance.gwei = 0)
         THEN fetchedBalance ELSE [eth |-> 32, gwei |-> 0]
    /\ baseReward.factor = 64
    /\ baseReward.stake = totalStaked

\* C8 witness: 40_000_000_000 was fetched and 32_000_000_000 entered.
C8_Witness ==
  /\ InBlockReward /\ LastStep = "ComputeBaseReward"
  /\ fetchedBalance = [eth |-> 40, gwei |-> 0]
  /\ baseReward.balance = [eth |-> 32, gwei |-> 0]

NonEmpty(f) == f.has /\ f.s # <<>>

\* A value HexToFloat parses: two characters (not looked at), then 1 to 16
\* hex digits.
Parses(f) ==
  Len(f.s) >= 3 /\ Len(f.s) <= 18 /\ \A i \in 3..Len(f.s) : IsHexDigit(f.s[i])

RECURSIVE SumOver(_, _)
\* The sum of term[i] over the i in I.
SumOver(I, term) ==
  IF I = {} THEN 0
  ELSE LET i == CHOOSE x \in I : TRUE IN term[i] + SumOver(I \ {i}, term)

C10_TipSum ==
  LET txs == blockDetails.transactions
      all == 1..Len(txs)
      baseFee == HexToFloat(blockDetails.baseFeePerGas.s).val
      tip == [i \in all |->
                (HexToFloat(txs[i].gasPrice.s).val - baseFee) * HexToFloat(txs[i].gas.s).val]
  IN  (/\ InBlockReward /\ LastStep = "ComputeTxFees" /\ blockDetails.hasTxs
       /\ blockDetails.baseFeePerGas.has /\ Parses(blockDetails.baseFeePerGas)
       /\ \A i \in all : /\ txs[i].gas.has /\ Parses(txs[i].gas)
                         /\ txs[i].gasPrice.has /\ Parses(txs[i].gasPrice)) =>
        /\ component.kind = "ok"
        /\ component.included = all
        /\ component.val = SumOver(all, tip)

\* C10 witness: a vanilla block answered 200 with a negative tip total.
C10_Witness ==
  /\ InBlockReward /\ pc = "done" /\ respCode = 200 /\ respStatus = "Vanilla Block"
  /\ component.val < 0
  /\ respReward[1].value.wei < 0
  /\ Len(blockDetails.transactions) >= 2

\* The steps of a request in the order of the pipeline; the base reward is
\* the two fetches and the computation, Combine is part of the component step.
PipelineOrder(mev) ==
  << "ValidateSlot", "FetchBlock", "Classify", "ResolveProposer",
     "FetchValidatorBalance", "FetchTotalStaked", "ComputeBaseReward",
     "ParseBlockNumber", "FetchExecutionBlock",
     IF mev THEN "ComputeMEVPayment" ELSE "ComputeTxFees", "Format" >>

UpstreamOrder == <<"beacon block", "validator balance", "total stake", "execution block">>

FetchSteps == {"FetchBlock", "FetchValidatorBalance", "FetchTotalStaked", "FetchExecutionBlock"}

====
